---------------------------- MODULE Spec2Model ----------------------------
(***************************************************************************)
(* kmc_ising: the control class Core (core.py), the notification classes   *)
(* and the row extractor (supporting_tools.py) and the simulation process  *)
(* KmcIsing (algorithm.py).                                                *)
(*                                                                         *)
(* Execution units: the main thread running Core.start, the notification   *)
(* thread running Core._notification_handler, and one process per launched *)
(* KmcIsing.  Every access to a shared object (the synchronized counter,   *)
(* the manager's list and its two events) is one step; the computation a   *)
(* unit does on its own data between two such accesses belongs to the      *)
(* step of the access that follows it.                                     *)
(***************************************************************************)
EXTENDS Integers, Sequences, FiniteSets, TLC

(***************************************************************************)
(* Bounds of the model.                                                    *)
(***************************************************************************)
MaxRows == 2

(***************************************************************************)
(* Program constants.                                                      *)
(***************************************************************************)
UNBLOCK_THRESHOLD == 4
STEPS_PER_SITE == 10

(***************************************************************************)
(* Numbers.  A float is kept in thousandths (a rate) or, for an energy, in *)
(* halves; a time is kept in units of 1/TIME_UNITS of a rate's inverse.    *)
(* The random p is NUM/P_DEN for a NUM of P_NUMS.                          *)
(***************************************************************************)
MILLI == 1000
TIME_UNITS == 1000000
P_DEN == 8
P_NUMS == {1, 6}

VARIABLES
    file_exists,              \* whether open(filename) succeeds
    file,                     \* the lines of the .csv file, each split at ','
    CPU_COUNT,                \* Core.__CPU_COUNT
    verbose_mode,             \* Core.verbose_mode, the "-v" flag
    process_counter,          \* Core._process_counter.value
    process_counter_event,    \* Core._process_counter_event
    notification_event,       \* Core._notification_event
    notification_queue,       \* Core._notification_queue
    main_pc,                  \* position of the main thread in Core.start
    main_ret,                 \* where Core.start continues after a send
    main_row,                 \* rows the generator has yielded so far
    param_dict,               \* the loop's item, until its branch is done
    main_tmp,                 \* value read by "+= 1", until it is written back
    handler_pc,               \* position of the notification thread
    observed,                 \* the thread read a counter <= 4 while start waits
    handler_tmp,              \* value read by "+= -1", until it is written back
    notification,             \* the handler's local, from pop to output
    task_pc,                  \* position of each KmcIsing process
    task_kwargs,              \* KmcIsing._kwargs of each process
    started,                  \* per row: how often process.start() ran
    increments,               \* how many "+= 1" the loop of start completed
    decrements,               \* how many "+= -1" the handler completed
    handled,                  \* the records the handler has popped
    output,                   \* the records that were printed
    \* the attributes of one KmcIsing process, followed event by event
    _kwargs,
    _steps,
    _state,
    _partial_sums,
    _r,
    _p,
    _delta_t,
    _chosen_molecule,
    _t,
    _mt,
    _jt,
    run_i                     \* the loop variable i of run

vars == << file_exists, file, CPU_COUNT, verbose_mode, process_counter,
           process_counter_event, notification_event, notification_queue,
           main_pc, main_ret, main_row, param_dict, main_tmp, handler_pc,
           observed, handler_tmp, notification, task_pc, task_kwargs, started,
           increments, decrements, handled, output, _kwargs, _steps,
           _state, _partial_sums, _r, _p, _delta_t, _chosen_molecule, _t,
           _mt, _jt, run_i >>

sim_vars == << _kwargs, _steps, _state, _partial_sums, _r, _p, _delta_t,
               _chosen_molecule, _t, _mt, _jt, run_i >>

Rows == DOMAIN file

(***************************************************************************)
(* float() and int() of the field tokens that occur in the input.          *)
(***************************************************************************)
ToFloat(s) ==
    CASE s = "-2.0" -> -2
      [] s = "-1.0" -> -1
      [] s = "0.0" -> 0
      [] s = "1.0" -> 1
      [] s = "2.0" -> 2
      [] s = "-709.0" -> -709
      [] s = "800.0" -> 800

\* an int() that would drop the sign
ToIntUnsigned(s) ==
    CASE s = "-1" -> 1
      [] s = "0" -> 0
      [] s = "1" -> 1
      [] s = "2" -> 2
      [] s = "3" -> 3
      [] s = "4" -> 4

ToInt(s) ==
    CASE s = "-1" -> -1
      [] s = "0" -> 0
      [] s = "1" -> 1
      [] s = "2" -> 2
      [] s = "3" -> 3
      [] s = "4" -> 4

SubSeqFrom(s, k) == IF k > Len(s) THEN << >> ELSE SubSeq(s, k, Len(s))

NoDict == [cls |-> "none", num |-> 0, J |-> 0, B |-> 0, N |-> 0, S |-> << >>]

(***************************************************************************)
(* One iteration of extract_parameter_sequence on the already split row:   *)
(* row[0], row[1], row[2] raise IndexError when absent, row[3:] does not.  *)
(***************************************************************************)
ExtractRow(row, counter) ==
    IF Len(row) < 3
    THEN [NoDict EXCEPT !.cls = "int", !.num = counter]
    ELSE [cls |-> "dict", num |-> counter, J |-> ToFloat(row[1]),
          B |-> ToFloat(row[2]), N |-> ToInt(row[3]),
          S |-> SubSeqFrom(row, 4)]

(***************************************************************************)
(* Notification.__init__ and Error.__init__: the fields the handler reads. *)
(* row is the row number the message text carries (0: none).               *)
(***************************************************************************)
Notification(where, what, row, task_end, for_verbose) ==
    [cls |-> "Notification", where |-> where, what |-> what, row |-> row,
     task_end |-> task_end, for_verbose |-> for_verbose, fatal |-> FALSE]

Error(where, why, row, fatal, task_end) ==
    [Notification(where, why, row, task_end, FALSE)
        EXCEPT !.cls = "Error", !.fatal = fatal]

NoNotification == Notification("none", "none", 0, FALSE, FALSE)

(***************************************************************************)
(* KmcIsing._generate_state: the chains it can build.  "random" draws each *)
(* site; "uniform" appends nothing when B = 0; otherwise S is parsed.      *)
(***************************************************************************)
IsExplicit(kw) == kw.S # << >> /\ kw.S[1] \notin {"random", "uniform"}

GenerateStates(kw) ==
    IF kw.S[1] = "random"
    THEN [1..kw.N -> {-1, 1}]
    ELSE IF kw.S[1] = "uniform"
    THEN IF kw.B > 0 THEN {[i \in 1..kw.N |-> 1]}
         ELSE IF kw.B < 0 THEN {[i \in 1..kw.N |-> -1]}
         ELSE {<< >>}
    ELSE {[i \in 1..Len(kw.S) |-> ToInt(kw.S[i])]}

SequenceLengthError(kw) == IsExplicit(kw) /\ Len(kw.S) # kw.N


(***************************************************************************)
(* How KmcIsing.run can end once it has sent its start notification:       *)
(*   "length_error"  _generate_state sends its Error and calls exit(1);    *)
(*   "crash"         an exception leaves run: S[0] of an empty S, the      *)
(*                   IndexError of _count_r on an empty chain or of        *)
(*                   state[1] on a chain of one site, None/None when no    *)
(*                   event ran, jt/t with t = 0 when every waiting time    *)
(*                   was 0;                                                *)
(*   "result"        the final notification is sent.                       *)
(***************************************************************************)
ChainOutcomes(kw, st) ==
    IF STEPS_PER_SITE * kw.N <= 0 THEN {"crash"}
    ELSE IF Len(st) < 2 THEN {"crash"}
    ELSE {"result", "crash"}

RunOutcomes(kw) ==
    IF kw.S = << >> THEN {"crash"}
    ELSE IF SequenceLengthError(kw) THEN {"length_error"}
    ELSE UNION {ChainOutcomes(kw, st) : st \in GenerateStates(kw)}

(***************************************************************************)
(* Core.print_notification, first half: the append to the manager's list.  *)
(* The second half, the set of the event, is the sender's next step.       *)
(***************************************************************************)
\* a list that would take the record at its front instead
QueuePush(n) == notification_queue' = << n >> \o notification_queue
QueueAppend(n) == notification_queue' = Append(notification_queue, n)

(***************************************************************************)
(* The records of the program.                                             *)
(***************************************************************************)
CantOpenError == Error("Core.start", "cant_open", 0, TRUE, FALSE)
EmptyFileError == Error("Core.start", "file_is_empty", 0, TRUE, FALSE)
WrongFormatError(num) == Error("Core.start", "wrong_format", num, FALSE, TRUE)
\* an "all started" record that would not count as the end of a task
AllStartedPlain == Notification("Core.start", "all_started", 0, FALSE, TRUE)
AllStarted == Notification("Core.start", "all_started", 0, TRUE, TRUE)
\* a start notification that would count as the end of its task
StartedAsTaskEnd(num) ==
    Notification("KmcIsing.run", "simulation_started", num, TRUE, TRUE)
SimulationStarted(num) ==
    Notification("KmcIsing.run", "simulation_started", num, FALSE, TRUE)
IsSimulated(num) ==
    Notification("KmcIsing.run", "is_simulated", num, TRUE, FALSE)
\* the same record made fatal, which _generate_state does not send
FatalLengthError(num) ==
    Error("KmcIsing._generate_model", "not_equal_to_N", num, TRUE, TRUE)
LengthError(num) ==
    Error("KmcIsing._generate_model", "not_equal_to_N", num, FALSE, TRUE)

(***************************************************************************)
(* None, and a value, of an attribute that __init__ sets to None.          *)
(***************************************************************************)
None == << >>
Some(v) == << v >>
Val(x) == x[1]

\* no process is followed event by event
NoProcess ==
    /\ _kwargs = NoDict
    /\ _steps = 0
    /\ _state = << >>
    /\ _partial_sums = << >>
    /\ _r = None
    /\ _p = None
    /\ _delta_t = None
    /\ _chosen_molecule = None
    /\ _t = None
    /\ _mt = None
    /\ _jt = None
    /\ run_i = 0

(***************************************************************************)
(* The files of the model: a few rows of every kind the code tells apart.  *)
(***************************************************************************)
RowUniform == << "1.0", "1.0", "2", "uniform" >>
RowZeroField == << "1.0", "0.0", "2", "uniform" >>
RowShort == << "1.0", "1.0" >>
RowWrongLength == << "1.0", "1.0", "2", "1" >>
RowKinds == {RowUniform, RowShort, RowWrongLength}

SeqsUpTo(S, n) == UNION {[1..k -> S] : k \in 0..n}

InitWith(files, cpus, flags) ==
    /\ file_exists \in BOOLEAN
    /\ file \in (IF file_exists THEN files ELSE {<< >>})
    /\ CPU_COUNT \in cpus
    /\ verbose_mode \in flags
    /\ process_counter = 0
    /\ process_counter_event = FALSE
    /\ notification_event = FALSE
    /\ notification_queue = << >>
    /\ main_pc = "start"
    /\ main_ret = "done"
    /\ main_row = 0
    /\ param_dict = NoDict
    /\ main_tmp = 0
    /\ handler_pc = "idle"
    /\ observed = FALSE
    /\ handler_tmp = 0
    /\ notification = NoNotification
    /\ task_pc = [r \in Rows |-> "none"]
    /\ task_kwargs = [r \in Rows |-> NoDict]
    /\ started = [r \in Rows |-> 0]
    /\ increments = 0
    /\ decrements = 0
    /\ handled = {}
    /\ output = {}
    /\ NoProcess

\* Hosts with one processor (the second row already finds the counter above
\* the capacity) and with two.
CpuCounts == {1, 2}

Init == InitWith(SeqsUpTo(RowKinds, MaxRows), CpuCounts, BOOLEAN)

main_vars == << main_pc, main_ret, main_row, param_dict, main_tmp >>
handler_vars == << handler_pc, handler_tmp, notification >>
task_vars == << task_pc, task_kwargs >>
input_vars == << file_exists, file, CPU_COUNT, verbose_mode >>

(***************************************************************************)
(* Core.start, the main thread.                                            *)
(***************************************************************************)
\* l.123-124: the handler counts as one task; the thread is started.
MainStart ==
    /\ main_pc = "start"
    /\ process_counter' = process_counter + 1
    /\ handler_pc' = "loop"
    /\ main_pc' = "open"
    /\ UNCHANGED << sim_vars, input_vars, observed, process_counter_event, notification_event,
                    notification_queue, main_ret, main_row, param_dict,
                    main_tmp, handler_tmp, notification, task_vars, started,
                    increments, decrements, handled, output >>

\* l.126-140: the file cannot be opened (start then returns), or is empty
\* (start goes on after the Error is sent), or is fine.
MainOpen ==
    /\ main_pc = "open"
    /\ IF ~file_exists
       THEN /\ QueueAppend(CantOpenError)
            /\ main_pc' = "notify"
            /\ main_ret' = "done"
       ELSE IF file = << >>
       THEN /\ QueueAppend(EmptyFileError)
            /\ main_pc' = "notify"
            /\ main_ret' = "set_event"
       ELSE /\ main_pc' = "set_event"
            /\ UNCHANGED << notification_queue, main_ret >>
    /\ UNCHANGED << sim_vars, input_vars, observed, process_counter, process_counter_event,
                    notification_event, main_row, param_dict, main_tmp,
                    handler_vars, task_vars, started, increments, decrements,
                    handled, output >>

\* l.208, called from start: the event of a record appended by start.
MainNotify ==
    /\ main_pc = "notify"
    /\ notification_event' = TRUE
    /\ main_pc' = main_ret
    /\ main_ret' = "done"
    /\ UNCHANGED << sim_vars, input_vars, observed, process_counter, process_counter_event,
                    notification_queue, main_row, param_dict,
                    main_tmp, handler_vars, task_vars, started, increments,
                    decrements, handled, output >>

\* l.142
MainSetEvent ==
    /\ main_pc = "set_event"
    /\ process_counter_event' = TRUE
    /\ main_pc' = "next"
    /\ UNCHANGED << sim_vars, input_vars, observed, process_counter, notification_event,
                    notification_queue, main_ret, main_row, param_dict,
                    main_tmp, handler_vars, task_vars, started, increments,
                    decrements, handled, output >>

\* l.143: the generator yields the next row, or is exhausted.
MainNext ==
    /\ main_pc = "next"
    /\ IF main_row < Len(file)
       THEN /\ main_row' = main_row + 1
            /\ param_dict' = ExtractRow(file[main_row + 1], main_row + 1)
            /\ main_pc' = "check"
       ELSE /\ main_pc' = "all_started"
            /\ UNCHANGED << main_row, param_dict >>
    /\ UNCHANGED << sim_vars, input_vars, observed, process_counter, process_counter_event,
                    notification_event, notification_queue, main_ret,
                    main_tmp, handler_vars, task_vars, started, increments,
                    decrements, handled, output >>

\* l.144: the read of the counter that picks the branch.
MainCheck ==
    /\ main_pc = "check"
    /\ main_pc' = IF process_counter <= CPU_COUNT THEN "inc_read" ELSE "clear"
    /\ UNCHANGED << sim_vars, input_vars, observed, process_counter, process_counter_event,
                    notification_event, notification_queue, main_ret,
                    main_row, param_dict, main_tmp, handler_vars, task_vars,
                    started, increments, decrements, handled, output >>

\* l.145: "value += 1" is a read of the property and then a write of it.
MainIncRead ==
    /\ main_pc = "inc_read"
    /\ main_tmp' = process_counter
    /\ main_pc' = "inc_write"
    /\ UNCHANGED << sim_vars, input_vars, observed, process_counter, process_counter_event,
                    notification_event, notification_queue, main_ret,
                    main_row, param_dict, handler_vars, task_vars, started,
                    increments, decrements, handled, output >>

MainIncWrite ==
    /\ main_pc = "inc_write"
    /\ process_counter' = main_tmp + 1
    /\ main_tmp' = 0
    /\ increments' = increments + 1
    /\ main_pc' = "dispatch"
    /\ UNCHANGED << sim_vars, input_vars, observed, process_counter_event, notification_event,
                    notification_queue, main_ret, main_row, param_dict,
                    handler_vars, task_vars, started, decrements,
                    handled, output >>

\* l.146-154: an Error for a row that is no dict, a started process else.
MainDispatch ==
    /\ main_pc = "dispatch"
    /\ IF param_dict.cls # "dict"
       THEN /\ QueueAppend(WrongFormatError(param_dict.num))
            /\ main_pc' = "notify"
            /\ main_ret' = "next"
            /\ UNCHANGED << task_vars, started >>
       ELSE /\ task_pc' = [task_pc EXCEPT ![param_dict.num] = "start"]
            /\ task_kwargs' = [task_kwargs EXCEPT ![param_dict.num] = param_dict]
            /\ started' = [started EXCEPT ![param_dict.num] = @ + 1]
            /\ main_pc' = "next"
            /\ UNCHANGED << notification_queue, main_ret >>
    /\ param_dict' = NoDict
    /\ UNCHANGED << sim_vars, input_vars, observed, process_counter, process_counter_event,
                    notification_event, main_row, main_tmp, handler_vars,
                    increments, decrements, handled, output >>

\* l.157
MainClear ==
    /\ main_pc = "clear"
    /\ process_counter_event' = FALSE
    /\ observed' = FALSE
    /\ main_pc' = "wait"
    /\ UNCHANGED << sim_vars, input_vars, process_counter, notification_event,
                    notification_queue, main_ret, main_row, param_dict,
                    main_tmp, handler_vars, task_vars, started, increments,
                    decrements, handled, output >>

\* l.158: wait() returns once the event is set; the loop then takes the
\* next item of the generator.
MainWait ==
    /\ main_pc = "wait"
    /\ process_counter_event
    /\ observed' = FALSE
    /\ main_pc' = "next"
    /\ UNCHANGED << sim_vars, input_vars, process_counter, process_counter_event,
                    notification_event, notification_queue, main_ret,
                    main_row, param_dict, main_tmp, handler_vars, task_vars,
                    started, increments, decrements, handled, output >>

\* l.162-165
MainAllStarted ==
    /\ main_pc = "all_started"
    /\ QueueAppend(AllStarted)
    /\ main_pc' = "notify"
    /\ main_ret' = "done"
    /\ UNCHANGED << sim_vars, input_vars, observed, process_counter, process_counter_event,
                    notification_event, main_row, param_dict, main_tmp,
                    handler_vars, task_vars, started, increments, decrements,
                    handled, output >>

(***************************************************************************)
(* Core._notification_handler, the notification thread.                    *)
(***************************************************************************)
\* l.174: the loop condition.
HandlerLoop ==
    /\ handler_pc = "loop"
    /\ handler_pc' = IF process_counter # 0 THEN "wait" ELSE "exited"
    /\ UNCHANGED << sim_vars, input_vars, observed, process_counter, process_counter_event,
                    notification_event, notification_queue, main_vars,
                    handler_tmp, notification, task_vars, started,
                    increments, decrements, handled, output >>

\* l.176
HandlerWait ==
    /\ handler_pc = "wait"
    /\ notification_event
    /\ handler_pc' = "pop"
    /\ UNCHANGED << sim_vars, input_vars, observed, process_counter, process_counter_event,
                    notification_event, notification_queue, main_vars,
                    handler_tmp, notification, task_vars, started,
                    increments, decrements, handled, output >>

\* l.104-105, 113-114: pop(0), which raises IndexError on an empty list.
HandlerPop ==
    /\ handler_pc = "pop"
    /\ IF notification_queue = << >>
       THEN /\ handler_pc' = "clear"
            /\ UNCHANGED << notification_queue, notification, handled >>
       ELSE /\ notification' = Head(notification_queue)
            /\ notification_queue' = Tail(notification_queue)
            /\ handled' = handled \cup {Head(notification_queue)}
            /\ handler_pc' = "output"
    /\ UNCHANGED << sim_vars, input_vars, observed, process_counter, process_counter_event,
                    notification_event, main_vars, handler_tmp, task_vars,
                    started, increments, decrements, output >>

\* l.109-111, 181-182: the except branch clears the event; the loop goes on.
HandlerClear ==
    /\ handler_pc = "clear"
    /\ notification_event' = FALSE
    /\ handler_pc' = "loop"
    /\ UNCHANGED << sim_vars, input_vars, observed, process_counter, process_counter_event,
                    notification_queue, main_vars, handler_tmp, notification,
                    task_vars, started, increments, decrements, handled,
                    output >>

\* l.185-188: whether output() is called on the record.
\* a handler that would print whatever the flag
PrintsAll(n) == TRUE
IsPrinted(n) == verbose_mode \/ ~n.for_verbose

\* l.185-192 and Error.output: print; exit(1) of a fatal Error raises
\* SystemExit in the notification thread, which ends that thread.
HandlerOutput ==
    /\ handler_pc = "output"
    /\ output' = IF IsPrinted(notification)
                 THEN output \cup {notification} ELSE output
    /\ handler_pc' = IF IsPrinted(notification) /\ notification.fatal
                     THEN "dead"
                     ELSE IF notification.task_end THEN "dec_read"
                     ELSE "loop"
    /\ notification' = NoNotification
    /\ UNCHANGED << sim_vars, input_vars, observed, process_counter, process_counter_event,
                    notification_event, notification_queue, main_vars,
                    handler_tmp, task_vars, started,
                    increments, decrements, handled >>

\* l.193: "value += -1" is a read of the property and then a write of it.
HandlerDecRead ==
    /\ handler_pc = "dec_read"
    /\ handler_tmp' = process_counter
    /\ handler_pc' = "dec_write"
    /\ UNCHANGED << sim_vars, input_vars, observed, process_counter, process_counter_event,
                    notification_event, notification_queue, main_vars,
                    notification, task_vars, started, increments, decrements,
                    handled, output >>

HandlerDecWrite ==
    /\ handler_pc = "dec_write"
    /\ process_counter' = handler_tmp - 1
    /\ handler_tmp' = 0
    /\ decrements' = decrements + 1
    /\ handler_pc' = "threshold"
    /\ UNCHANGED << sim_vars, input_vars, observed, process_counter_event, notification_event,
                    notification_queue, main_vars, notification,
                    task_vars, started, increments, handled, output >>

\* l.195: the read of the counter and the comparison with 4.  observed
\* records a read of 4 or less for as long as start is blocked in wait().
HandlerThreshold ==
    /\ handler_pc = "threshold"
    /\ handler_pc' = IF process_counter <= UNBLOCK_THRESHOLD
                     THEN "set" ELSE "loop"
    /\ observed' = IF process_counter <= UNBLOCK_THRESHOLD /\ main_pc = "wait"
                   THEN TRUE ELSE observed
    /\ UNCHANGED << sim_vars, input_vars, process_counter,
                    process_counter_event, notification_event,
                    notification_queue, main_vars, handler_tmp, notification,
                    task_vars, started, increments, decrements, handled,
                    output >>

\* l.196
HandlerSet ==
    /\ handler_pc = "set"
    /\ process_counter_event' = TRUE
    /\ handler_pc' = "loop"
    /\ UNCHANGED << sim_vars, input_vars, observed, process_counter,
                    notification_event, notification_queue, main_vars,
                    handler_tmp, notification, task_vars, started,
                    increments, decrements, handled, output >>

(***************************************************************************)
(* KmcIsing.run, one process per started row.                              *)
(***************************************************************************)
\* l.82-84: the append of the start notification.
TaskStarted(r) ==
    /\ task_pc[r] = "start"
    /\ QueueAppend(SimulationStarted(task_kwargs[r].num))
    /\ task_pc' = [task_pc EXCEPT ![r] = "start_notify"]
    /\ UNCHANGED << sim_vars, input_vars, observed, process_counter, process_counter_event,
                    notification_event, main_vars, handler_vars, task_kwargs,
                    started, increments, decrements, handled, output >>

\* l.208, called from run or _generate_state: the event of the record the
\* process appended; after its last record the process ends.
TaskNotify(r) ==
    /\ task_pc[r] \in {"start_notify", "end_notify", "error_notify"}
    /\ notification_event' = TRUE
    /\ task_pc' = [task_pc EXCEPT ![r] =
                     CASE @ = "start_notify" -> "run"
                       [] @ = "end_notify" -> "finished"
                       [] @ = "error_notify" -> "exited"]
    /\ UNCHANGED << sim_vars, input_vars, observed, process_counter, process_counter_event,
                    notification_queue, main_vars, handler_vars, task_kwargs,
                    started, increments, decrements, handled, output >>

\* l.86-103 with l.108-139: the process works on its own data until it
\* appends its last record, or dies of an exception.
TaskRun(r) ==
    /\ task_pc[r] = "run"
    /\ \E o \in RunOutcomes(task_kwargs[r]) :
         CASE o = "result" ->
                /\ QueueAppend(IsSimulated(task_kwargs[r].num))
                /\ task_pc' = [task_pc EXCEPT ![r] = "end_notify"]
           [] o = "length_error" ->
                /\ QueueAppend(LengthError(task_kwargs[r].num))
                /\ task_pc' = [task_pc EXCEPT ![r] = "error_notify"]
           [] o = "crash" ->
                /\ task_pc' = [task_pc EXCEPT ![r] = "crashed"]
                /\ UNCHANGED notification_queue
    /\ UNCHANGED << sim_vars, input_vars, observed, process_counter, process_counter_event,
                    notification_event, main_vars, handler_vars, task_kwargs,
                    started, increments, decrements, handled, output >>

Main ==
    \/ MainStart
    \/ MainOpen
    \/ MainNotify
    \/ MainSetEvent
    \/ MainNext
    \/ MainCheck
    \/ MainIncRead
    \/ MainIncWrite
    \/ MainDispatch
    \/ MainClear
    \/ MainWait
    \/ MainAllStarted

Handler ==
    \/ HandlerLoop
    \/ HandlerWait
    \/ HandlerPop
    \/ HandlerClear
    \/ HandlerOutput
    \/ HandlerDecRead
    \/ HandlerDecWrite
    \/ HandlerThreshold
    \/ HandlerSet

Task(r) ==
    \/ TaskStarted(r)
    \/ TaskNotify(r)
    \/ TaskRun(r)

Next ==
    \/ Main
    \/ Handler
    \/ \E r \in Rows : Task(r)

Spec == Init /\ [][Next]_vars

(***************************************************************************)
(* KmcIsing, event by event: the process of row 1.                         *)
(***************************************************************************)
\* seq[i] of Python, i from 0, a negative i counting from the end
HasIndex(seq, i) == -Len(seq) <= i /\ i < Len(seq)
At(seq, i) == IF i < 0 THEN seq[Len(seq) + i + 1] ELSE seq[i + 1]

\* The floats of the rate table.  A double of ordinary size is kept in
\* thousandths.  A double near the top of the range (from 1e307 on) is
\* kept as TOP + its value in units of 1e303, the largest double
\* (1.797e308) being TOP + FLOAT_MAX, and inf is INF.  A double at the
\* bottom of the range (below 1e-307) is kept in units of 1e-310, and 0 is
\* the double 0.0.  The rows of one process use either the ordinary
\* values or the two ends, never both.
TOP == 1000000000
FLOAT_MAX == 179769
INF == TOP + FLOAT_MAX + 1

\* a + b of two doubles: a sum beyond the largest double is inf, and a
\* double of the top of the range absorbs one from below it
FloatAdd(a, b) ==
    IF a = INF \/ b = INF THEN INF
    ELSE IF a >= TOP /\ b >= TOP
    THEN IF (a - TOP) + (b - TOP) > FLOAT_MAX THEN INF ELSE a + b - TOP
    ELSE IF a >= TOP THEN a
    ELSE IF b >= TOP THEN b
    ELSE a + b

\* math.exp raises OverflowError above 709.78
ExpRaises(u2) == u2 >= 1420

\* math.exp(u), u given in halves: u = u2 / 2.  exp(709) = 8.218e307,
\* exp(708) = 3.023e307, exp(-708) = 3.308e-308, exp(-709) = 1.217e-308,
\* exp(-710) = 4.476e-309, and exp(u) is 0.0 below u = -745.14
ExpMilli(u2) ==
    CASE u2 <= -1491 -> 0
      [] u2 = -1420 -> 45    [] u2 = -1418 -> 122  [] u2 = -1416 -> 331
      [] u2 = 1416 -> TOP + 30234
      [] u2 = 1418 -> TOP + 82184
      [] u2 = -8 -> 18       [] u2 = -7 -> 30      [] u2 = -6 -> 50
      [] u2 = -5 -> 82       [] u2 = -4 -> 135     [] u2 = -3 -> 223
      [] u2 = -2 -> 368      [] u2 = -1 -> 607     [] u2 = 0 -> 1000
      [] u2 = 1 -> 1649      [] u2 = 2 -> 2718     [] u2 = 3 -> 4482
      [] u2 = 4 -> 7389      [] u2 = 5 -> 12182    [] u2 = 6 -> 20086
      [] u2 = 7 -> 33115     [] u2 = 8 -> 54598

\* int(math.log(1 / p)) for p = num / P_DEN: the largest n with e^n <= 1/p
TruncLog(num) ==
    CHOOSE n \in 0..3 :
        /\ num * ExpMilli(2 * n) <= P_DEN * MILLI
        /\ num * ExpMilli(2 * (n + 1)) > P_DEN * MILLI

\* l.154-155, 161-162, 168-169 and 240-241, 247-248, 254-255: the sum of
\* the two products of site i, by the branch taken for i
NeighbourTerm(st, i) ==
    IF i = 0
    THEN At(st, 0) * At(st, -1) + At(st, 0) * At(st, 1)
    ELSE IF i = Len(st) - 1
    THEN At(st, -1) * At(st, -2) + At(st, -1) * At(st, 0)
    ELSE At(st, i) * At(st, i - 1) + At(st, i) * At(st, i + 1)

\* u_ikt of site i, in halves
LocalEnergy2(kw, st, i) == -kw.J * NeighbourTerm(st, i) - 2 * At(st, i) * kw.B

\* l.151-171: the loop of _count_partial_sums from index i on
RECURSIVE PartialSumsFrom(_, _, _, _)
PartialSumsFrom(ps, st, kw, i) ==
    IF i >= Len(st) \/ ExpRaises(LocalEnergy2(kw, st, i)) THEN ps
    ELSE LET w == ExpMilli(LocalEnergy2(kw, st, i))
             v == IF i = 0 THEN w ELSE FloatAdd(w, At(ps, i - 1))
         IN  PartialSumsFrom([ps EXCEPT ![i + 1] = v], st, kw, i + 1)

\* l.147-150
StartIndex(chosen) ==
    IF chosen = None \/ chosen = Some(0) THEN 0 ELSE Val(chosen) - 1

\* p * r < x for p = num / P_DEN: num * r < P_DEN * x; p * inf is inf,
\* which is below nothing
ProductBelow(num, rate, x) ==
    IF rate = INF THEN FALSE
    ELSE IF rate >= TOP
    THEN x >= TOP /\ num * (rate - TOP) < P_DEN * (x - TOP)
    ELSE x >= TOP \/ num * rate < P_DEN * x

\* x <= p * r
ProductFrom(x, num, rate) ==
    IF rate = INF THEN TRUE
    ELSE IF rate >= TOP
    THEN x < TOP \/ P_DEN * (x - TOP) <= num * (rate - TOP)
    ELSE x < TOP /\ P_DEN * x <= num * rate

\* l.203-207: the loop of _choose_molecule from index i on
RECURSIVE ChooseFrom(_, _, _, _, _)
ChooseFrom(ps, num, rate, i, chosen) ==
    IF i >= Len(ps) THEN chosen
    ELSE LET c == IF i = 0 /\ ProductBelow(num, rate, At(ps, i))
                  THEN Some(0)
                  ELSE IF /\ ProductFrom(At(ps, i - 1), num, rate)
                          /\ ProductBelow(num, rate, At(ps, i))
                       THEN Some(i)
                       ELSE chosen
         IN  ChooseFrom(ps, num, rate, i + 1, c)

RECURSIVE SumSeq(_)
SumSeq(seq) == IF seq = << >> THEN 0 ELSE Head(seq) + SumSeq(Tail(seq))

\* l.236-257: partial_sum of _add_to_jt, in halves
InteractionSum2(kw, st) ==
    SumSeq([k \in 1..Len(st) |-> -kw.J * NeighbourTerm(st, k - 1)])

\* l.143-171: state[1] of a chain of one site is an IndexError
PartialSumsRaises(st, chosen) == StartIndex(chosen) = 0 /\ Len(st) = 1
\* l.156, 163, 170: math.exp raises at a site of the pass; the entries
\* before it are already written
PartialSumsOverflows(st, kw, chosen) ==
    \E i \in StartIndex(chosen)..(Len(st) - 1) :
        ExpRaises(LocalEnergy2(kw, st, i))
CountPartialSums(ps, st, kw, chosen) ==
    PartialSumsFrom(ps, st, kw, StartIndex(chosen))

\* l.175-179: [-1] of an empty list is an IndexError
CountRRaises(ps) == ~HasIndex(ps, -1)
CountR(ps) == At(ps, -1)

\* l.191-195: 1 / r, then times the truncated logarithm; 1 / 0.0 is a
\* ZeroDivisionError
CountDeltaTRaises(rate) == rate = 0
CountDeltaT(rate, num) == (TIME_UNITS \div rate) * TruncLog(num)

\* l.199-207
ChooseMolecule(ps, num, rate, chosen) == ChooseFrom(ps, num, rate, 0, chosen)

\* l.221-222: state[None] is a TypeError
ChangeSpinRaises(chosen) == chosen = None
\* a resample that would add the drawn value to the site
AddSpin(st, chosen, spin) == [st EXCEPT ![Val(chosen) + 1] = @ + spin]
ChangeSpin(st, chosen, spin) == [st EXCEPT ![Val(chosen) + 1] = spin]

OrZero(x) == IF x = None THEN 0 ELSE Val(x)

\* l.211-217
AddToT(t, dt) == OrZero(t) + dt

\* l.226-229
AddToMt(mt, st, dt) == OrZero(mt) + SumSeq(st) * dt

\* l.233-258
AddToJt(jt, kw, st, dt) == OrZero(jt) + InteractionSum2(kw, st) * dt

Goto(pc) == task_pc' = [task_pc EXCEPT ![1] = pc]
\* an exception leaves run: the process dies with its traceback
Raise == Goto("crashed")
core_vars == << input_vars, observed, process_counter, process_counter_event,
                notification_event, main_vars, handler_vars, task_kwargs,
                started, increments, decrements, handled, output >>

\* l.86-87 with l.108-139
_generate_state ==
    /\ task_pc[1] = "run"
    /\ IF _kwargs.S = << >>
       THEN /\ Raise
            /\ UNCHANGED << _state, _partial_sums, notification_queue >>
       ELSE IF SequenceLengthError(_kwargs)
       THEN /\ _state' = [k \in 1..Len(_kwargs.S) |-> ToInt(_kwargs.S[k])]
            /\ QueueAppend(LengthError(_kwargs.num))
            /\ Goto("error_notify")
            /\ UNCHANGED _partial_sums
       ELSE /\ _state' \in GenerateStates(_kwargs)
            /\ _partial_sums' = _state'
            /\ Goto(IF 0 < _steps THEN "event" ELSE "report")
            /\ UNCHANGED notification_queue
    /\ UNCHANGED << core_vars, _kwargs, _steps, _r, _p, _delta_t,
                    _chosen_molecule, _t, _mt, _jt, run_i >>

\* l.88-97: one pass of the loop of run, with the p and the spin drawn in
\* it; each method reads what the methods before it have written.  A pass
\* that raises ends the process where it stands.  nums: the draws of p.
EventWith(nums) ==
    /\ task_pc[1] = "event"
    /\ \E num \in nums, spin \in {-1, 1} :
         IF PartialSumsRaises(_state, _chosen_molecule)
         THEN /\ Raise
              /\ UNCHANGED sim_vars
         ELSE
         /\ _partial_sums' = CountPartialSums(_partial_sums, _state, _kwargs,
                                              _chosen_molecule)
         /\ IF \/ PartialSumsOverflows(_state, _kwargs, _chosen_molecule)
               \/ CountRRaises(_partial_sums')
            THEN /\ Raise
                 /\ UNCHANGED << _r, _p, _delta_t, _chosen_molecule, _state,
                                 _t, _mt, _jt, run_i >>
            ELSE
            /\ _r' = Some(CountR(_partial_sums'))
            /\ _p' = Some(num)
            /\ IF CountDeltaTRaises(Val(_r'))
               THEN /\ Raise
                    /\ UNCHANGED << _delta_t, _chosen_molecule, _state,
                                    _t, _mt, _jt, run_i >>
               ELSE
               /\ _delta_t' = Some(CountDeltaT(Val(_r'), Val(_p')))
               /\ _chosen_molecule' = ChooseMolecule(_partial_sums', Val(_p'),
                                                     Val(_r'), _chosen_molecule)
               /\ IF ChangeSpinRaises(_chosen_molecule')
                  THEN /\ Raise
                       /\ UNCHANGED << _state, _t, _mt, _jt, run_i >>
                  ELSE
                  /\ _state' = ChangeSpin(_state, _chosen_molecule', spin)
                  /\ _t' = Some(AddToT(_t, Val(_delta_t')))
                  /\ _mt' = Some(AddToMt(_mt, _state', Val(_delta_t')))
                  /\ _jt' = Some(AddToJt(_jt, _kwargs, _state', Val(_delta_t')))
                  /\ run_i' = run_i + 1
                  /\ Goto(IF run_i + 1 < _steps THEN "event" ELSE "report")
         /\ UNCHANGED << _kwargs, _steps >>
    /\ UNCHANGED << core_vars, notification_queue >>

Event == EventWith(P_NUMS)

\* l.99-103: jt / t and mt / t of the message, then the append; None / None
\* is a TypeError, a division by 0.0 a ZeroDivisionError
ReportRaises(t) == t = None \/ t = Some(0)
Report ==
    /\ task_pc[1] = "report"
    /\ IF ReportRaises(_t)
       THEN Raise /\ UNCHANGED notification_queue
       ELSE QueueAppend(IsSimulated(_kwargs.num)) /\ Goto("end_notify")
    /\ UNCHANGED << core_vars, sim_vars >>

NextTask ==
    \/ TaskStarted(1)
    \/ TaskNotify(1)
    \/ _generate_state
    \/ Event
    \/ Report

\* the rows whose process is followed
RowExplicit == << "-1.0", "-1.0", "2", "1", "-1" >>
RowOneSite == << "1.0", "1.0", "1", "random" >>
RowNoSpec == << "1.0", "1.0", "2" >>
\* a field so strong that exp(-800) is 0.0 and exp(800) out of range
RowStrongField == << "0.0", "800.0", "2", "uniform" >>
TaskRows == {RowUniform, RowZeroField, RowWrongLength, RowExplicit,
             RowOneSite, RowNoSpec, RowStrongField}

\* Core.start has just started the process of the only row (MainDispatch),
\* which __init__ has set up (l.53-72)
InitTaskWith(rows) ==
    /\ file_exists = TRUE
    /\ file \in {<< row >> : row \in rows}
    /\ CPU_COUNT = 1
    /\ verbose_mode = TRUE
    /\ process_counter = 2
    /\ process_counter_event = TRUE
    /\ notification_event = FALSE
    /\ notification_queue = << >>
    /\ main_pc = "next"
    /\ main_ret = "done"
    /\ main_row = 1
    /\ param_dict = NoDict
    /\ main_tmp = 0
    /\ handler_pc = "loop"
    /\ observed = FALSE
    /\ handler_tmp = 0
    /\ notification = NoNotification
    /\ task_pc = << "start" >>
    /\ task_kwargs = << ExtractRow(file[1], 1) >>
    /\ started = << 1 >>
    /\ increments = 1
    /\ decrements = 0
    /\ handled = {}
    /\ output = {}
    /\ _kwargs = ExtractRow(file[1], 1)
    /\ _steps = STEPS_PER_SITE * _kwargs.N
    /\ _state = << >>
    /\ _partial_sums = << >>
    /\ _r = None
    /\ _p = None
    /\ _delta_t = None
    /\ _chosen_molecule = None
    /\ _t = None
    /\ _mt = None
    /\ _jt = None
    /\ run_i = 0

InitTask == InitTaskWith(TaskRows)

SpecTask == InitTask /\ [][NextTask]_vars

(***************************************************************************)
(* A host with two processors and a file of four valid rows: the smallest  *)
(* input on which more tasks than the capacity can be running.             *)
(***************************************************************************)
InitCapacity ==
    InitWith({<< RowUniform, RowUniform, RowUniform, RowUniform >>},
             {2}, {FALSE})

SpecCapacity == InitCapacity /\ [][Next]_vars

(***************************************************************************)
(* Vocabulary of the properties.                                           *)
(***************************************************************************)
ValidRows == {r \in Rows : ExtractRow(file[r], r).cls = "dict"}
MalformedRows == Rows \ ValidRows

InQueue(n) == \E i \in DOMAIN notification_queue : notification_queue[i] = n
\* appended by print_notification at some time
Sent(n) == InQueue(n) \/ n \in handled

TaskEndRecords(r) == {IsSimulated(r), LengthError(r)}
\* launched, and its task-end record not yet taken by the handler
Outstanding == {r \in Rows : started[r] > 0 /\ TaskEndRecords(r) \cap handled = {}}
\* every launched process has sent its task-end record and ended
AllTasksReported ==
    \A r \in Rows : started[r] > 0 => task_pc[r] \in {"finished", "exited"}
\* no unit can take a step any more
Stopped == ~ENABLED Next

(***************************************************************************)
(* The claims.                                                             *)
(***************************************************************************)

\* C1: once Core.start has gone through a file it could open, every valid
\* row has been launched exactly once, and no row is ever launched twice;
\* in particular a row read while the counter exceeds the capacity is
\* launched after the wait.
C1_OneTaskPerValidRecord ==
    /\ \A r \in Rows : started[r] <= 1
    /\ (main_pc = "done" /\ file_exists) =>
           \A r \in ValidRows : started[r] = 1

\* C2: in every reachable state the launched tasks whose task-end record
\* the handler has not yet taken are at most CPU_COUNT, and the counter is
\* at most CPU_COUNT + 1.
C2_CapacityBound ==
    /\ Cardinality(Outstanding) <= CPU_COUNT
    /\ process_counter <= CPU_COUNT + 1

\* C3: drain.  For a file with rows, when every launched task has sent its
\* task-end record and no unit can take a step any more, the counter is 0
\* and the handler has left its loop.
C3_Drain ==
    (Stopped /\ file_exists /\ file # << >> /\ AllTasksReported) =>
        (handler_pc = "exited" /\ process_counter = 0)

\* C4: no lost wake-up.  The program never comes to rest with the main
\* thread waiting on the cleared process-counter event while no launched
\* task is outstanding, every record sent has been handled and no counter
\* update was lost.
C4_NoLostWakeUp ==
    ~ /\ Stopped
      /\ main_pc = "wait"
      /\ ~process_counter_event
      /\ Outstanding = {}
      /\ notification_queue = << >>
      /\ process_counter = 1 + increments - decrements

\* C5: no lost notification.  The program never comes to rest with a
\* record in the queue while the handler waits on the cleared
\* notification event.
C5_NoLostNotification ==
    ~ /\ Stopped
      /\ handler_pc = "wait"
      /\ ~notification_event
      /\ notification_queue # << >>

\* C6: a KmcIsing process that has ended, by return, exit or exception, has
\* appended a task-end record of its row: the result or the Error.
C6_TaskEndRecord ==
    \A r \in Rows :
        task_pc[r] \in {"finished", "exited", "crashed"} =>
            \E n \in TaskEndRecords(r) : Sent(n)

\* C7: once the handler's unit is counted, the counter is 1 plus the
\* completed increments of the main thread minus the completed decrements
\* of the handler, and it is never negative.
C7_CounterEquation ==
    /\ process_counter >= 0
    /\ main_pc # "start" =>
           process_counter = 1 + increments - decrements

\* C8: when the handler has left its loop through the loop condition the
\* counter is 0, the main thread's "all started" record, sent after the
\* last row, was handled and no launched task is outstanding.
C8_ExitOnlyWhenDrained ==
    handler_pc = "exited" =>
        /\ process_counter = 0
        /\ AllStarted \in handled
        /\ Outstanding = {}

\* C9 as stated: the Error of a spin sequence whose length is not N is
\* fatal, and once the handler has taken it no other record is taken and
\* no process is started any more.
C9_FatalEndsWholeRun ==
    [][\A r \in Rows :
           LengthError(r) \in handled =>
               /\ LengthError(r).fatal
               /\ handled' = handled
               /\ started' = started]_vars

\* C9, amended: the Error of a spin sequence whose length is not N is not
\* fatal and is a task-end record; its sender is a process whose sequence
\* has the wrong length and which ends by it alone; and the handler is
\* ended by a record only when the file could not be opened or is empty,
\* never by this Error.
C9_LengthErrorEndsOnlyItsTask ==
    /\ \A r \in Rows :
         /\ ~LengthError(r).fatal
         /\ LengthError(r).task_end
         /\ Sent(LengthError(r)) =>
                /\ SequenceLengthError(task_kwargs[r])
                /\ task_pc[r] \in {"error_notify", "exited"}
                /\ \A q \in Rows \ {r} : task_pc[q] # "exited"
                                            \/ Sent(LengthError(q))
    /\ handler_pc = "dead" => (~file_exists \/ file = << >>)

\* C9, the case: the handler has printed the Error of row 1 and is now at
\* the result of row 2, whose process ran to its end.
C9_Witness ==
    /\ LengthError(1) \in output
    /\ handler_pc = "output"
    /\ notification = IsSimulated(2)
    /\ task_pc[1] = "exited"

\* C10: no process is ever started for a malformed row, and once
\* Core.start has gone through the file every malformed row has had its
\* non-fatal task-end Error sent and its increment made.
C10_MalformedRow ==
    /\ \A r \in MalformedRows : started[r] = 0
    /\ ~WrongFormatError(1).fatal /\ WrongFormatError(1).task_end
    /\ (main_pc = "done" /\ file_exists) =>
           \A r \in MalformedRows : Sent(WrongFormatError(r))

\* the dispatching phase of Core.start: l.142-165
Dispatching ==
    main_pc \in {"set_event", "next", "check", "inc_read", "inc_write",
                 "dispatch", "clear", "wait", "all_started"}

\* C11: when the file cannot be opened or is empty, start sends a fatal
\* Error and goes no further: it never enters the dispatching phase, never
\* sends "all processes are started", starts no process and makes no
\* increment for a row.
C11_InputValidationAborts ==
    (~file_exists \/ file = << >>) =>
        /\ ~Dispatching
        /\ ~Sent(AllStarted)
        /\ \A r \in Rows : started[r] = 0
        /\ increments = 0
        /\ main_pc = "done" =>
               \E n \in {CantOpenError, EmptyFileError} : n.fatal /\ Sent(n)

\* C12: once the handler has printed a fatal record the whole program has
\* ended: nothing more is printed, no process is started and the main
\* thread takes no further step.
C12_FatalEndsProgram ==
    [][handler_pc = "dead" =>
           /\ output' = output
           /\ started' = started
           /\ main_vars' = main_vars]_vars

\* The pairs << a, b >> of records of one producer of which a is appended
\* before b: a process sends its start notification before its task-end
\* record (run, l.82-103); start sends the Errors of the rows in the order
\* of the rows, and all of its records before "all processes are started".
SentBefore ==
    UNION {{<< SimulationStarted(r), n >> : n \in TaskEndRecords(r)} :
               r \in Rows}
    \cup {<< WrongFormatError(qr[1]), WrongFormatError(qr[2]) >> :
              qr \in {x \in Rows \X Rows : x[1] < x[2]}}
    \cup {<< n, AllStarted >> :
              n \in {EmptyFileError} \cup {WrongFormatError(r) : r \in Rows}}
Position(n) == CHOOSE i \in DOMAIN notification_queue : notification_queue[i] = n

\* the queue keeps two records of one producer in the order of their
\* appends, and the later one is not taken while the earlier one waits
QueueInOrder ==
    \A pair \in SentBefore :
        /\ (InQueue(pair[1]) /\ InQueue(pair[2])) =>
               Position(pair[1]) < Position(pair[2])
        /\ pair[2] \in handled => ~InQueue(pair[1])
        /\ Sent(pair[2]) /\ pair[1].cls = "Notification" => Sent(pair[1])
\* a step that takes a record takes the oldest one of the queue
PopsOldest ==
    handled' # handled =>
        /\ notification_queue # << >>
        /\ notification' = Head(notification_queue)
        /\ handled' = handled \cup {Head(notification_queue)}
        /\ notification_queue' = Tail(notification_queue)

\* C13: the channel is first in, first out: the handler always takes the
\* oldest record of the queue, and two records appended by one producer
\* are taken in the order of their appends under every interleaving.
C13_Fifo == []QueueInOrder /\ [][PopsOldest]_vars

\* C13, the case: row 1's process has sent its start notification and its
\* result, the handler is at the first while the second waits in the queue
\* behind a record of another producer.
C13_Witness ==
    /\ handler_pc = "output"
    /\ notification = SimulationStarted(1)
    /\ InQueue(IsSimulated(1))
    /\ Len(notification_queue) >= 2
    /\ Position(IsSimulated(1)) >= 2

\* C14: the records of one process, in the order of their appends (no
\* record is taken from the queue while the process is followed): the start
\* notification comes first and is no task-end record; a task-end record,
\* the result or the Error, is the second and last record, so there is at
\* most one and nothing follows it; and a process that has not yet reached
\* its end has sent none.
C14_TaskRecordsOrdered ==
    /\ Len(notification_queue) <= 2
    /\ \A i \in DOMAIN notification_queue :
         /\ notification_queue[i].row = _kwargs.num
         /\ notification_queue[i].where \in {"KmcIsing.run",
                                             "KmcIsing._generate_model"}
         /\ notification_queue[i].task_end <=> i = 2
         /\ i = 1 => notification_queue[i].what = "simulation_started"
         /\ i = 2 => notification_queue[i] \in TaskEndRecords(_kwargs.num)
    /\ Len(notification_queue) = 2 =>
           task_pc[1] \in {"end_notify", "error_notify", "finished", "exited"}

\* C14, the case: a process that ran all its events has sent its start
\* notification and then its result.
C14_Witness ==
    /\ task_pc[1] = "finished"
    /\ run_i = _steps
    /\ notification_queue = << SimulationStarted(1), IsSimulated(1) >>

\* the records of the queue
Queued == {notification_queue[i] : i \in DOMAIN notification_queue}
\* the handler is through l.185-188 for the record
Processed(n) == n \in handled /\ ~(handler_pc = "output" /\ notification = n)

\* C15: a record the handler has processed was printed if and only if the
\* verbose mode is on or the record is not for the verbose mode only; only
\* taken records are printed; and every Error is not for the verbose mode
\* only, so it is printed whatever the mode.
C15_VerbosityFilter ==
    /\ output \subseteq handled
    /\ \A n \in handled :
         Processed(n) => (n \in output <=> (verbose_mode \/ ~n.for_verbose))
    /\ \A n \in handled \cup Queued :
         n.cls = "Error" => /\ ~n.for_verbose
                            /\ Processed(n) => n \in output

\* C15, the case: without the verbose mode the handler has passed over the
\* start notification of row 1 and has printed the Error of that row.
C15_Witness ==
    /\ ~verbose_mode
    /\ Processed(SimulationStarted(1))
    /\ SimulationStarted(1) \notin output
    /\ Processed(LengthError(1))
    /\ LengthError(1) \in output

\* Files of two lines with one to five fields each, read on a host with
\* one processor.
RowOneField == << "1.0" >>
ExtractKinds == {RowOneField, RowShort, RowNoSpec, RowUniform, RowExplicit}
InitExtract ==
    /\ InitWith([1..2 -> ExtractKinds], {1}, {FALSE})
    /\ file_exists
SpecExtract == InitExtract /\ [][Next]_vars

\* C16: what the generator has just yielded for line main_row is the
\* marker if and only if the line has fewer than four fields, and the
\* marker, like the record's index, is the 1-based number of the line.
C16_FewerThanFourFields ==
    main_pc = "check" =>
        /\ param_dict.num = main_row
        /\ param_dict.cls = "int" <=> Len(file[main_row]) < 4
        /\ param_dict.cls = "dict" <=> Len(file[main_row]) >= 4

\* _generate_state has returned: neither S[0] raised nor the Error of a
\* wrong length was sent
Generated ==
    /\ task_pc[1] \notin {"none", "start", "start_notify", "run"}
    /\ _kwargs.S # << >>
    /\ ~SequenceLengthError(_kwargs)
\* the process is through its loop, or has ended
RunEnded == task_pc[1] \in {"crashed", "end_notify", "finished"}

\* C17: a process whose state generation succeeded never runs more than
\* 10 * N events and, when it has ended, it has run exactly 10 * N events
\* and has sent its result.
C17_ExactlyTenNEvents ==
    Generated =>
        /\ _steps = 10 * _kwargs.N
        /\ run_i <= _steps
        /\ RunEnded => /\ run_i = _steps
                       /\ Sent(IsSimulated(_kwargs.num))

\* C18: once _generate_state has returned for a valid record, the chain
\* has exactly N sites, and it keeps N sites after every event.
C18_ChainLengthIsN ==
    Generated => Len(_state) = _kwargs.N

\* C19: a process that has run its 10 * N events has accumulated a time t
\* that is not zero, and if it has ended it has sent its result.
C19_TimeNonzero ==
    (Generated /\ _steps > 0 /\ run_i = _steps) =>
        /\ _t # None
        /\ Val(_t) # 0
        /\ RunEnded => Sent(IsSimulated(_kwargs.num))

\* The process up to the return of _generate_state, for every row with an
\* explicit spin specification of one to three values -1 or 1, of the
\* length N or not.
SiteCounts == {1, 2, 3}
SiteToken(n) == CASE n = 1 -> "1" [] n = 2 -> "2" [] n = 3 -> "3"
ExplicitRows ==
    {<< j, b, SiteToken(n) >> \o spins :
        j \in {"-1.0", "1.0"}, b \in {"-1.0", "0.0", "1.0"},
        n \in SiteCounts,
        spins \in UNION {[1..m -> {"-1", "1"}] : m \in SiteCounts}}
InitGenerate == InitTaskWith(ExplicitRows)
NextGenerate ==
    \/ TaskStarted(1)
    \/ TaskNotify(1)
    \/ _generate_state
SpecGenerate == InitGenerate /\ [][NextGenerate]_vars

\* the spin a field of the row denotes
SpinOf(token) == IF token = "-1" THEN -1 ELSE 1

\* C20: for a record whose spin specification is a sequence of N values
\* -1 or 1, the chain _generate_state has built is that sequence, value by
\* value and in the same order, and the process has sent no Error.
C20_ExplicitRoundTrip ==
    (/\ task_pc[1] = "event"
     /\ IsExplicit(_kwargs)
     /\ Len(_kwargs.S) = _kwargs.N
     /\ \A i \in DOMAIN _kwargs.S : _kwargs.S[i] \in {"-1", "1"}) =>
        /\ Len(_state) = _kwargs.N
        /\ \A i \in 1.._kwargs.N : _state[i] = SpinOf(file[1][3 + i])
        /\ \A n \in Queued : n.cls # "Error"

\* C20, the case: the chain of the row "1.0,0.0,3,1,-1,-1" is built.
C20_Witness ==
    /\ task_pc[1] = "event"
    /\ file[1] = << "1.0", "0.0", "3", "1", "-1", "-1" >>
    /\ _state = << 1, -1, -1 >>
    /\ notification_queue = << SimulationStarted(1) >>

\* a valid record: S is "random", "uniform" or N values -1 or 1
ValidRecord(kw) ==
    /\ kw.cls = "dict"
    /\ kw.S # << >>
    /\ \/ kw.S[1] \in {"random", "uniform"}
       \/ /\ Len(kw.S) = kw.N
          /\ \A i \in DOMAIN kw.S : kw.S[i] \in {"-1", "1"}
Abs(x) == IF x < 0 THEN -x ELSE x

\* C21: in every state of the process of a valid record every site of the
\* chain is -1 or 1, so the sum of the spins that _add_to_mt multiplies by
\* the waiting time is at most N in absolute value.
C21_SpinsAreUnit ==
    ValidRecord(_kwargs) =>
        /\ \A i \in DOMAIN _state : _state[i] \in {-1, 1}
        /\ Abs(SumSeq(_state)) <= _kwargs.N

\* C21, the case: the chain of "1.0,1.0,2,uniform", built as 1, 1, after
\* events that resampled its first site to -1, with mt accumulated.
C21_Witness ==
    /\ file[1] = RowUniform
    /\ run_i >= 2
    /\ _state = << -1, 1 >>
    /\ _mt # None
    /\ _t # None /\ Val(_t) > 0

\* The process of a chain of three sites, with every p drawn above 1/e:
\* the waiting time of every event is 0, so the clock and the two
\* integrals stay 0 while the rate table, the selection and the chain go
\* through all their values in the 30 events.
STILL_NUMS == {3, 4, 5, 6, 7}
RowThreeSites == << "1.0", "0.0", "3", "random" >>
RowThreeField == << "1.0", "1.0", "3", "random" >>
\* weights at the top of the range of the double: exp(708) and exp(709)
RowTopOfRange == << "1.0", "-709.0", "4", "1", "1", "1", "1" >>
TableRows == {RowThreeSites, RowThreeField, RowTopOfRange}
InitTable == InitTaskWith(TableRows)
EventStill == EventWith(STILL_NUMS)
NextTable ==
    \/ TaskStarted(1)
    \/ TaskNotify(1)
    \/ _generate_state
    \/ EventStill
    \/ Report
SpecTable == InitTable /\ [][NextTable]_vars

\* the neighbours of site i (from 1) on the ring
LeftOf(st, i) == IF i = 1 THEN Len(st) ELSE i - 1
RightOf(st, i) == IF i = Len(st) THEN 1 ELSE i + 1
\* the local weight exp(u_i) of site i of the chain, in thousandths
Weight(kw, st, i) ==
    ExpMilli(-kw.J * st[i] * (st[LeftOf(st, i)] + st[RightOf(st, i)])
             - 2 * st[i] * kw.B)
\* the sum of a list of doubles, from the left
RECURSIVE FloatSum(_)
FloatSum(seq) ==
    IF seq = << >> THEN 0
    ELSE IF Len(seq) = 1 THEN seq[1]
    ELSE FloatAdd(FloatSum(SubSeq(seq, 1, Len(seq) - 1)), seq[Len(seq)])
\* a weight of the chain is out of the range of math.exp
RebuildRaises(kw, st) ==
    \E i \in 1..Len(st) :
        ExpRaises(-kw.J * st[i] * (st[LeftOf(st, i)] + st[RightOf(st, i)])
                  - 2 * st[i] * kw.B)
\* the table a full rebuild gives: entry i is the sum of the weights up to i
FullTable(kw, st) ==
    [i \in 1..Len(st) |-> FloatSum([k \in 1..i |-> Weight(kw, st, k)])]

\* C22: in every event the table _count_partial_sums leaves is the table
\* of a full rebuild from the chain as it then is (the chain before the
\* resample of this event), and r is its last entry, the total rate.
C22_IncrementalIsRebuild ==
    [][run_i' = run_i + 1 =>
           /\ ~RebuildRaises(_kwargs, _state)
           /\ _partial_sums' = FullTable(_kwargs, _state)
           /\ _r' = Some(FullTable(_kwargs, _state)[Len(_state)])]_vars

\* RateTable[j-1] <= p * R < RateTable[j] for the index j (from 0) of the
\* table ps, RateTable[-1] read as 0
InInterval(ps, num, rate, j) ==
    /\ ProductFrom(IF j = 0 THEN 0 ELSE ps[j], num, rate)
    /\ ProductBelow(num, rate, ps[j + 1])

\* C23: in every event _choose_molecule leaves a valid site index, which
\* is the only index j with RateTable[j-1] <= p * R < RateTable[j] for the
\* table, the p and the R of this event.
C23_SelectionInvariant ==
    [][run_i' = run_i + 1 =>
           /\ _chosen_molecule' # None
           /\ Val(_chosen_molecule') \in 0..(_kwargs.N - 1)
           /\ \A j \in 0..(_kwargs.N - 1) :
                  InInterval(_partial_sums', Val(_p'), Val(_r'), j)
                      <=> j = Val(_chosen_molecule')]_vars

\* the pass of this step has run _count_partial_sums to its end: it went
\* on to assign r
TableUpdated == run_i' = run_i + 1 \/ _r' # _r

\* C24: after the table update of every event the table is strictly
\* increasing and its first entry is positive.
C24_TableStrictlyIncreasing ==
    [][TableUpdated =>
           /\ _partial_sums'[1] > 0
           /\ \A i \in 2..Len(_partial_sums') :
                  _partial_sums'[i] > _partial_sums'[i - 1]]_vars

\* C25: in every event R > 0; the waiting time is the truncated logarithm
\* of 1/p over R, it is not negative, it is 0 exactly when the truncated
\* logarithm is 0, and t does not decrease.
C25_ClockMonotone ==
    [][TableUpdated =>
           /\ Val(_r') > 0
           /\ run_i' = run_i + 1 =>
                  /\ Val(_delta_t') >= 0
                  /\ Val(_delta_t') = 0 <=> TruncLog(Val(_p')) = 0
                  /\ Val(_t') = OrZero(_t) + Val(_delta_t')
                  /\ Val(_t') >= OrZero(_t)]_vars

\* C26: the notification thread sets the event of start only on a counter
\* of 4 or less, whatever CPU_COUNT is: a read above 4 sets nothing, nobody
\* else sets the event once the loop of start runs, and when start returns
\* from wait() the thread has read a counter of 4 or less since start
\* cleared the event.
C26_ThresholdIsFour ==
    [][/\ (handler_pc = "threshold" /\ process_counter > UNBLOCK_THRESHOLD)
           => (handler_pc' = "loop" /\ UNCHANGED process_counter_event)
       /\ (~process_counter_event /\ process_counter_event')
           => (handler_pc = "set" \/ main_pc = "set_event")
       /\ (main_pc = "wait" /\ main_pc' = "next") => observed]_vars

\* the "all processes are started" records appended so far
IsAllStarted(n) == n.what = "all_started"
AllStartedCopies ==
    Cardinality({i \in DOMAIN notification_queue :
                     IsAllStarted(notification_queue[i])})
    + Cardinality({n \in handled : IsAllStarted(n)})

\* C27: start appends "all processes are started" once, when the generator
\* is exhausted and after its last launch, with no condition on the
\* processes still running; the record is a task end for the verbose mode
\* only, and the decrement the handler makes once it has taken the record
\* reads the counter as it is and takes exactly 1 from it, the 1 start
\* added before it started the thread.
C27_AllStartedRecord ==
    /\ [](/\ AllStartedCopies <= 1
          /\ AllStartedCopies = 1 =>
                 main_row = Len(file) /\ main_pc \in {"notify", "done"}
          /\ (file_exists /\ main_pc = "done") => AllStartedCopies = 1
          /\ main_pc = "all_started" => ENABLED MainAllStarted
          /\ \A n \in Queued \cup handled :
                 IsAllStarted(n) => n.task_end /\ n.for_verbose
          /\ \A n \in output : IsAllStarted(n) => verbose_mode
          /\ (handler_pc = "dec_write" /\ AllStarted \in handled)
                 => handler_tmp = process_counter)
    /\ [][/\ AllStartedCopies = 1 =>
                 started' = started /\ increments' = increments
          /\ (/\ handler_pc = "dec_write"
              /\ handler_pc' # handler_pc
              /\ AllStarted \in handled)
                 => process_counter' = process_counter - 1]_vars

\* the handler has taken the record and made its decrement while a
\* launched process has not reported yet
C27_Witness ==
    /\ handled = {AllStarted}
    /\ handler_pc = "threshold"
    /\ decrements = 1
    /\ process_counter = increments
    /\ Outstanding # {}
    /\ main_pc = "done"

=============================================================================
